---------------------------- MODULE Spec2Model ----------------------------
(***************************************************************************)
(* NexoTime habit / streak / XP engine.                                    *)
(*                                                                         *)
(* The relational store is the record db (tables users, habits,            *)
(* habit_logs, user_achievements).  Every handler (REST log_habit, the     *)
(* bot's callback_habit with _mark_habit / _increment_habit_quantity, the  *)
(* scheduler's midnight_check) is a little program over a SQLAlchemy       *)
(* session: it reads rows, changes attributes of the loaded objects and    *)
(* commits.  Step is one such read-and-compute or commit step of a         *)
(* handler; Run executes a handler to its end.                             *)
(*                                                                         *)
(*   Spec      handlers run one after the other (each handler atomic)      *)
(*   SpecConc  two sessions interleave their steps (FastAPI runs the sync  *)
(*             endpoints in a thread pool, the bot in the event loop)      *)
(*   SpecStall one request stalls between two steps while others are       *)
(*             served, then a late request runs beside it                  *)
(***************************************************************************)
EXTENDS Integers, Sequences, FiniteSets, TLC

(***************************************************************************)
(* Bounds of the model.                                                    *)
(***************************************************************************)
MaxDay == 3
MaxOps == 3
MaxConcOps == 2
MaxHistory == 2

Users == {1, 2}
Habits == {1, 2, 3}
Dates == 1..MaxDay
Sessions == {1, 2}

None == <<>>
Some(x) == <<x>>

Max(a, b) == IF a >= b THEN a ELSE b

(***************************************************************************)
(* The habits of the run.  Habit 1 and 2 belong to user 1, habit 3 to      *)
(* user 2.  Habit 2 is a quantity habit with target 2; habit 3 is due on   *)
(* specific days only.                                                     *)
(***************************************************************************)
HabitTable ==
    [h \in Habits |->
        CASE h = 1 -> [user_id |-> 1, habit_type |-> "boolean", target_quantity |-> None,
                       frequency |-> "daily", specific_days |-> {},
                       active |-> TRUE, archived |-> FALSE]
          [] h = 2 -> [user_id |-> 1, habit_type |-> "quantity", target_quantity |-> Some(2),
                       frequency |-> "daily", specific_days |-> {},
                       active |-> TRUE, archived |-> FALSE]
          [] OTHER -> [user_id |-> 2, habit_type |-> "boolean", target_quantity |-> None,
                       frequency |-> "specific_days", specific_days |-> {"sun", "mon", "tue"},
                       active |-> TRUE, archived |-> FALSE]]

(***************************************************************************)
(* Leveling calculator (gamification.py).                                  *)
(***************************************************************************)
\* Every level at the price of the first.
flat_level_cost(level) == 100

xp_for_next_level(level) == level * 100

RECURSIVE calculate_level_loop(_, _)
calculate_level_loop(level, xp_remaining) ==
    IF xp_remaining >= xp_for_next_level(level)
    THEN calculate_level_loop(level + 1, xp_remaining - xp_for_next_level(level))
    ELSE level

\* A count of levels that starts at 0.
calculate_level_from_zero(total_xp) == calculate_level_loop(0, total_xp)

calculate_level(total_xp) == calculate_level_loop(1, total_xp)

XP_REWARDS ==
    [a \in {"habit_complete", "all_habits_complete", "routine_complete", "journal_entry",
            "gratitude_entry", "mood_log", "sleep_log", "exercise_log",
            "reflection_complete", "task_complete", "pomodoro_complete",
            "challenge_complete"} |->
        CASE a = "habit_complete" -> 10
          [] a = "all_habits_complete" -> 25
          [] a = "routine_complete" -> 15
          [] a = "journal_entry" -> 10
          [] a = "gratitude_entry" -> 10
          [] a = "mood_log" -> 5
          [] a = "sleep_log" -> 5
          [] a = "exercise_log" -> 15
          [] a = "reflection_complete" -> 20
          [] a = "task_complete" -> 10
          [] a = "pomodoro_complete" -> 10
          [] OTHER -> 50]

base_xp(action) == IF action \in DOMAIN XP_REWARDS THEN XP_REWARDS[action] ELSE 0

\* STREAK_MULTIPLIERS, sorted by days; the multiplier is kept in hundredths
\* (1.5 is 150), which is exact for every entry of the table.
STREAK_MULTIPLIERS ==
    << <<7, 150>>, <<14, 175>>, <<30, 200>>, <<60, 250>>, <<100, 300>> >>

RECURSIVE streak_multiplier_loop(_, _, _)
streak_multiplier_loop(streak, i, multiplier) ==
    IF i > Len(STREAK_MULTIPLIERS) THEN multiplier
    ELSE streak_multiplier_loop(streak, i + 1,
            IF streak >= STREAK_MULTIPLIERS[i][1] THEN STREAK_MULTIPLIERS[i][2]
            ELSE multiplier)

\* A look-up that stops at the first threshold the streak reaches.
first_streak_multiplier(streak) ==
    IF streak >= STREAK_MULTIPLIERS[1][1] THEN STREAK_MULTIPLIERS[1][2] ELSE 100

get_streak_multiplier(streak) == streak_multiplier_loop(streak, 1, 100)

\* total_xp = int(base_xp * multiplier) of award_xp.
award_total_xp(action, streak) ==
    LET multiplier == IF streak > 0 THEN get_streak_multiplier(streak) ELSE 100
    IN (base_xp(action) * multiplier) \div 100

\* award_xp on a loaded user row: the row as the call leaves it.  level is
\* assigned only on a level-up.
award_xp(user, action, streak) ==
    LET new_xp == user.xp + award_total_xp(action, streak)
        new_level == calculate_level(new_xp)
    IN IF base_xp(action) = 0 THEN user
       ELSE [user EXCEPT !.xp = new_xp,
                         !.level = IF new_level > user.level THEN new_level ELSE user.level]

\* The dict award_xp returns.
award_xp_result(user, action, streak) ==
    LET multiplier == IF streak > 0 THEN get_streak_multiplier(streak) ELSE 100
        total_xp == award_total_xp(action, streak)
        leveled_up == calculate_level(user.xp + total_xp) > user.level
    IN IF base_xp(action) = 0 THEN [xp_earned |-> 0]
       ELSE [xp_earned |-> base_xp(action), multiplier |-> multiplier,
             total_xp |-> total_xp, leveled_up |-> leveled_up]

(***************************************************************************)
(* Applicability (gamification.py habit_applies_today).  Date 1 is a       *)
(* Monday; date 0, the day before the run, a Sunday.                       *)
(***************************************************************************)
day_names == <<"mon", "tue", "wed", "thu", "fri", "sat", "sun">>

weekday(d) == (d + 6) % 7

\* A test of the day set that is made for an empty set as well.
applies_on_listed_days_only(habit, check_date) ==
    IF habit.frequency = "daily" THEN TRUE
    ELSE IF habit.frequency = "specific_days"
         THEN day_names[weekday(check_date) + 1] \in habit.specific_days
    ELSE TRUE

habit_applies_today(habit, check_date) ==
    IF habit.frequency = "daily" THEN TRUE
    ELSE IF habit.frequency = "specific_days" /\ habit.specific_days # {}
         THEN day_names[weekday(check_date) + 1] \in habit.specific_days
    ELSE TRUE


(***************************************************************************)
(* The store.  A habit_logs entry is the list of rows for one (habit_id,   *)
(* date); user_achievements counts the rows of one (user_id, achievement). *)
(* completed_at is None or Some(instant); instants are kept as the number  *)
(* of the stamp on its row, so that a new stamp is always a new value.     *)
(***************************************************************************)
NewUser(mode, telegram_id) ==
    [xp |-> 0, level |-> 1, global_streak |-> 0, best_global_streak |-> 0,
     mode |-> mode, telegram_id |-> telegram_id]

NewHabit == [current_streak |-> 0, best_streak |-> 0]

\* ACHIEVEMENTS_DEFINITIONS restricted to the codes check_and_unlock_achievements
\* tests, in the order it tests them, with the threshold of each test.
ACHIEVEMENTS ==
    << [code |-> "streak_3", class |-> "streak", threshold |-> 3, xp_reward |-> 25],
       [code |-> "streak_7", class |-> "streak", threshold |-> 7, xp_reward |-> 50],
       [code |-> "streak_14", class |-> "streak", threshold |-> 14, xp_reward |-> 100],
       [code |-> "streak_30", class |-> "streak", threshold |-> 30, xp_reward |-> 200],
       [code |-> "streak_60", class |-> "streak", threshold |-> 60, xp_reward |-> 400],
       [code |-> "streak_100", class |-> "streak", threshold |-> 100, xp_reward |-> 750],
       [code |-> "streak_365", class |-> "streak", threshold |-> 365, xp_reward |-> 2000],
       [code |-> "first_habit", class |-> "habits", threshold |-> 1, xp_reward |-> 10],
       [code |-> "habits_50", class |-> "habits", threshold |-> 50, xp_reward |-> 50],
       [code |-> "habits_100", class |-> "habits", threshold |-> 100, xp_reward |-> 100],
       [code |-> "habits_500", class |-> "habits", threshold |-> 500, xp_reward |-> 300],
       [code |-> "habits_1000", class |-> "habits", threshold |-> 1000, xp_reward |-> 500],
       [code |-> "level_5", class |-> "level", threshold |-> 5, xp_reward |-> 0],
       [code |-> "level_10", class |-> "level", threshold |-> 10, xp_reward |-> 0],
       [code |-> "level_20", class |-> "level", threshold |-> 20, xp_reward |-> 0],
       [code |-> "level_50", class |-> "level", threshold |-> 50, xp_reward |-> 0],
       [code |-> "week_1", class |-> "time", threshold |-> 7, xp_reward |-> 15],
       [code |-> "month_1", class |-> "time", threshold |-> 30, xp_reward |-> 50],
       [code |-> "month_6", class |-> "time", threshold |-> 180, xp_reward |-> 200],
       [code |-> "year_1", class |-> "time", threshold |-> 365, xp_reward |-> 500] >>

Codes == {ACHIEVEMENTS[i].code : i \in DOMAIN ACHIEVEMENTS}

InitDb(mode2, telegram2) ==
    [users |-> [u \in Users |-> IF u = 1 THEN NewUser("normal", TRUE)
                                ELSE NewUser(mode2, telegram2)],
     habits |-> [h \in Habits |-> NewHabit],
     habit_logs |-> [h \in Habits |-> [d \in Dates |-> <<>>]],
     user_achievements |-> [u \in Users |-> [c \in Codes |-> 0]]]

\* db.query(HabitLog).filter(habit_id == h, date == d)
LogRows(d_b, h, d) == IF d \in Dates THEN d_b.habit_logs[h][d] ELSE <<>>

\* db.query(HabitLog).filter(habit_id == h, date == d, completed == True).first()
CompletedLog(d_b, h, d) ==
    \E i \in DOMAIN LogRows(d_b, h, d) : LogRows(d_b, h, d)[i].completed

\* db.query(Habit).filter(user_id == u, active == True, archived == False)
active_habits(u) ==
    {h \in Habits : HabitTable[h].user_id = u /\ HabitTable[h].active
                    /\ ~HabitTable[h].archived}

check_all_completed(d_b, u, check_date) ==
    \A h \in active_habits(u) :
        habit_applies_today(HabitTable[h], check_date) => CompletedLog(d_b, h, check_date)

\* db.query(HabitLog).filter(user_id == u, completed == True).count()
total_completed(d_b, u) ==
    LET keys == {hd \in Habits \X Dates : HabitTable[hd[1]].user_id = u}
        n(hd) == Cardinality({i \in DOMAIN d_b.habit_logs[hd[1]][hd[2]] :
                                d_b.habit_logs[hd[1]][hd[2]][i].completed})
        RECURSIVE sum(_)
        sum(S) == IF S = {} THEN 0
                  ELSE LET x == CHOOSE y \in S : TRUE IN n(x) + sum(S \ {x})
    IN sum(keys)

(***************************************************************************)
(* Streak engine (gamification.py), on loaded rows.                        *)
(***************************************************************************)
\* An un-mark that takes one day off the streak.
streak_step_back(habit, completed, yesterday_log) ==
    IF completed
    THEN LET cs == IF yesterday_log THEN habit.current_streak + 1 ELSE 1
         IN [current_streak |-> cs,
             best_streak |-> IF cs > habit.best_streak THEN cs ELSE habit.best_streak]
    ELSE [current_streak |-> IF habit.current_streak > 0 THEN habit.current_streak - 1
                             ELSE 0,
          best_streak |-> habit.best_streak]

\* A completion that extends the streak without the look at yesterday.
streak_always_extended(habit, completed, yesterday_log) ==
    IF completed
    THEN LET cs == habit.current_streak + 1
         IN [current_streak |-> cs,
             best_streak |-> IF cs > habit.best_streak THEN cs ELSE habit.best_streak]
    ELSE [current_streak |-> 0, best_streak |-> habit.best_streak]

update_habit_streak(habit, completed, yesterday_log) ==
    IF completed
    THEN LET cs == IF yesterday_log THEN habit.current_streak + 1 ELSE 1
         IN [current_streak |-> cs,
             best_streak |-> IF cs > habit.best_streak THEN cs ELSE habit.best_streak]
    ELSE [current_streak |-> 0, best_streak |-> habit.best_streak]

\* A day counted as done once one applicable habit has a completed log.
any_completed_today(d_b, u, log_date) ==
    \E h \in active_habits(u) :
        habit_applies_today(HabitTable[h], log_date) /\ CompletedLog(d_b, h, log_date)

\* all_completed of update_global_streak: the loop over the active habits.
all_completed_today(d_b, u, log_date) ==
    \A h \in active_habits(u) :
        habit_applies_today(HabitTable[h], log_date) => CompletedLog(d_b, h, log_date)

\* A global streak update that resets the streak of a day not yet completed.
global_streak_reset_early(d_b, user, u, log_date) ==
    IF active_habits(u) = {} THEN user
    ELSE IF all_completed_today(d_b, u, log_date)
    THEN [user EXCEPT !.global_streak = user.global_streak + 1,
                      !.best_global_streak = Max(user.global_streak + 1,
                                                 user.best_global_streak)]
    ELSE [user EXCEPT !.global_streak = 0]

update_global_streak(d_b, user, u, log_date) ==
    IF active_habits(u) = {} THEN user
    ELSE IF all_completed_today(d_b, u, log_date)
    THEN LET gs == IF check_all_completed(d_b, u, log_date - 1)
                   THEN user.global_streak + 1 ELSE 1
         IN [user EXCEPT !.global_streak = gs,
                         !.best_global_streak =
                             IF gs > user.best_global_streak THEN gs
                             ELSE user.best_global_streak]
    ELSE user


(***************************************************************************)
(* A session: the handler it runs (op, data and the request's inputs), its *)
(* position pc, and the changes it holds until its next commit (pend).     *)
(* An UPDATE writes the columns whose value differs from the loaded one.   *)
(* xp_granted adds up the XP of the awards and rewards the handler has     *)
(* committed.                                                              *)
(***************************************************************************)
NoPend == [log |-> None, habit |-> None, user |-> None, ua |-> None]

IdleLoc ==
    [pc |-> "idle", op |-> "none", data |-> "none", user |-> 0, habit_id |-> 0,
     date |-> 0, today |-> 0, completed |-> FALSE, quantity_logged |-> None,
     was_already_completed |-> FALSE, gamify |-> "none",
     pend |-> NoPend, unlocked_codes |-> {}, idx |-> 0, newly_unlocked |-> {},
     xp_granted |-> 0, result |-> "none"]

Dirty(loaded, new) == {c \in DOMAIN loaded : new[c] # loaded[c]}

ApplyDirty(cur, p) == [c \in DOMAIN cur |-> IF c \in p.dirty THEN p.vals[c] ELSE cur[c]]

Finish(loc, result) == [loc EXCEPT !.pc = "done", !.result = result, !.pend = NoPend]

\* A table without a unique constraint.
unconstrained(rows) == TRUE

\* UniqueConstraint('habit_id', 'date', name='uq_habit_date')
uq_habit_date(rows) == rows = <<>>

\* UniqueConstraint('user_id', 'achievement_id', name='uq_user_achievement')
uq_user_achievement(count) == count = 0

\* (datetime.utcnow() - user.created_at).days; the accounts exist since date 0.
created_at(u) == 0

\* Where a handler goes once the mark itself is done: log_habit returns the
\* log, callback_habit goes on to check_and_unlock_achievements.
AfterMark(loc) ==
    IF loc.op = "log_habit" THEN Finish(loc, "ok") ELSE [loc EXCEPT !.pc = "ach_begin"]

\* datetime.utcnow() as a value for completed_at of a row.
utcnow(exists, log) ==
    IF exists /\ log.completed_at # None THEN Some(log.completed_at[1] + 1) ELSE Some(1)

\* log_habit: the row as the request leaves it (found) or as it creates it.
log_habit_row(loc, exists, log) ==
    IF exists
    THEN [completed |-> loc.completed,
          quantity_logged |-> IF loc.quantity_logged # None THEN loc.quantity_logged[1]
                              ELSE log.quantity_logged,
          completed_at |-> IF loc.completed /\ ~log.completed THEN utcnow(exists, log)
                           ELSE log.completed_at]
    ELSE [completed |-> loc.completed,
          quantity_logged |-> IF loc.quantity_logged # None THEN loc.quantity_logged[1]
                              ELSE 0,
          completed_at |-> IF loc.completed THEN utcnow(exists, log) ELSE None]

\* _mark_habit
mark_habit_row(loc, exists, log) ==
    IF exists
    THEN [log EXCEPT !.completed = loc.completed,
                     !.completed_at = IF loc.completed THEN utcnow(exists, log) ELSE None]
    ELSE [completed |-> loc.completed, quantity_logged |-> 0,
          completed_at |-> IF loc.completed THEN utcnow(exists, log) ELSE None]

\* _increment_habit_quantity
increment_habit_quantity_row(loc, exists, log) ==
    LET target == HabitTable[loc.habit_id].target_quantity
        reached(q) == target # None /\ target[1] # 0 /\ q >= target[1]
    IN IF exists
       THEN [completed |-> IF reached(log.quantity_logged + 1) THEN TRUE ELSE log.completed,
             quantity_logged |-> log.quantity_logged + 1,
             completed_at |-> IF reached(log.quantity_logged + 1) THEN utcnow(exists, log)
                              ELSE log.completed_at]
       ELSE [completed |-> reached(1), quantity_logged |-> 1,
             completed_at |-> IF reached(1) THEN utcnow(exists, log) ELSE None]

\* The habit lookup and the fetch of the day's log, up to the commit.
StepLookup(d_b, loc) ==
    LET h == loc.habit_id
        found == h \in Habits /\ HabitTable[h].user_id = loc.user
        rows == LogRows(d_b, h, loc.date)
        exists == rows # <<>>
        log == rows[1]
        new == CASE loc.op = "log_habit" -> log_habit_row(loc, exists, log)
                 [] loc.data = "qty" -> increment_habit_quantity_row(loc, exists, log)
                 [] OTHER -> mark_habit_row(loc, exists, log)
    IN IF ~found
       THEN [db |-> d_b,
             loc |-> IF loc.op = "log_habit" THEN Finish(loc, "not_found")
                     ELSE [loc EXCEPT !.pc = "ach_begin"]]
       ELSE [db |-> d_b,
             loc |-> [loc EXCEPT
                        !.was_already_completed = exists /\ log.completed,
                        !.pend.log = Some([insert |-> ~exists, vals |-> new,
                                           dirty |-> IF exists THEN Dirty(log, new)
                                                     ELSE DOMAIN new]),
                        !.pc = "commit_log"]]

\* db.commit() of the log.  An INSERT for a (habit_id, date) that has a row by
\* now breaks uq_habit_date: IntegrityError, which no handler catches.
StepCommitLog(d_b, loc) ==
    LET h == loc.habit_id
        p == loc.pend.log[1]
        rows == LogRows(d_b, h, loc.date)
        rows2 == IF p.insert THEN Append(rows, p.vals)
                 ELSE [rows EXCEPT ![1] = ApplyDirty(rows[1], p)]
        gamify == CASE loc.op = "log_habit" ->
                          IF loc.completed /\ ~loc.was_already_completed THEN "complete"
                          ELSE IF ~loc.completed /\ loc.was_already_completed
                               THEN "uncomplete" ELSE "none"
                    [] loc.data = "qty" -> IF rows2[1].completed THEN "complete" ELSE "none"
                    [] OTHER -> IF loc.completed THEN "complete" ELSE "uncomplete"
        loc2 == [loc EXCEPT !.pend = NoPend, !.gamify = gamify]
    IN IF p.insert /\ ~uq_habit_date(rows)
       THEN [db |-> d_b, loc |-> Finish(loc, "error")]
       ELSE [db |-> [d_b EXCEPT !.habit_logs[h][loc.date] = rows2],
             loc |-> IF gamify = "none" THEN AfterMark(loc2)
                     ELSE [loc2 EXCEPT !.pc = "habit_streak"]]

StepHabitStreak(d_b, loc) ==
    LET habit == d_b.habits[loc.habit_id]
        new == update_habit_streak(habit, loc.gamify = "complete",
                                   CompletedLog(d_b, loc.habit_id, loc.date - 1))
        \* "habit.current_streak = 0" is an assignment to a row that the last
        \* commit has expired: the UPDATE carries the column whatever it held.
        dirty == IF loc.gamify = "complete" THEN Dirty(habit, new) ELSE {"current_streak"}
    IN [db |-> d_b,
        loc |-> [loc EXCEPT !.pend.habit = Some([vals |-> new, dirty |-> dirty]),
                            !.pc = "commit_habit"]]

StepCommitHabit(d_b, loc) ==
    LET h == loc.habit_id
        loc2 == [loc EXCEPT !.pend = NoPend]
    IN [db |-> [d_b EXCEPT !.habits[h] = ApplyDirty(d_b.habits[h], loc.pend.habit[1])],
        loc |-> IF loc.gamify = "complete" THEN [loc2 EXCEPT !.pc = "global_streak"]
                ELSE AfterMark(loc2)]

StepGlobalStreak(d_b, loc) ==
    LET user == d_b.users[loc.user]
        new == update_global_streak(d_b, user, loc.user, loc.date)
    IN [db |-> d_b,
        loc |-> IF active_habits(loc.user) = {} THEN [loc EXCEPT !.pc = "award_xp"]
                ELSE [loc EXCEPT !.pend.user = Some([vals |-> new, dirty |-> Dirty(user, new),
                                                      earned |-> 0]),
                                 !.pc = "commit_global"]]

\* db.commit() of a change of the user row alone.
StepCommitUser(d_b, loc, next_pc) ==
    [db |-> [d_b EXCEPT !.users[loc.user] = ApplyDirty(d_b.users[loc.user], loc.pend.user[1])],
     loc |-> [loc EXCEPT !.pend = NoPend, !.pc = next_pc,
                         !.xp_granted = @ + loc.pend.user[1].earned]]

StepAwardXp(d_b, loc) ==
    LET user == d_b.users[loc.user]
        new == award_xp(user, "habit_complete", d_b.habits[loc.habit_id].current_streak)
    IN [db |-> d_b,
        loc |-> [loc EXCEPT !.pend.user = Some([vals |-> new, dirty |-> Dirty(user, new),
                                                 earned |-> new.xp - user.xp]),
                            !.pc = "commit_xp"]]

\* log_habit: "Verificar si completó TODOS los hábitos del día".
StepAllHabits(d_b, loc) ==
    LET user == d_b.users[loc.user]
        today_applicable == {h \in active_habits(loc.user) :
                                habit_applies_today(HabitTable[h], loc.date)}
        today_rows == UNION {{<<h, i>> : i \in DOMAIN LogRows(d_b, h, loc.date)} :
                                h \in today_applicable}
        today_completed == Cardinality({hi \in today_rows :
                                LogRows(d_b, hi[1], loc.date)[hi[2]].completed})
        new == award_xp(user, "all_habits_complete", user.global_streak)
    IN [db |-> d_b,
        loc |-> IF today_completed >= Cardinality(today_applicable)
                   /\ Cardinality(today_applicable) > 0
                THEN [loc EXCEPT !.pend.user = Some([vals |-> new, dirty |-> Dirty(user, new),
                                                      earned |-> new.xp - user.xp]),
                                 !.pc = "commit_all"]
                ELSE [loc EXCEPT !.pc = "ach_begin"]]


(***************************************************************************)
(* check_and_unlock_achievements and _unlock.                              *)
(***************************************************************************)
StepAchBegin(d_b, loc) ==
    [db |-> d_b,
     loc |-> [loc EXCEPT !.unlocked_codes =
                            {c \in Codes : d_b.user_achievements[loc.user][c] > 0},
                         !.idx = 1, !.pc = "ach_scan"]]

\* The test check_and_unlock_achievements makes for one achievement.
achievement_due(d_b, loc, a) ==
    CASE a.class = "streak" -> d_b.users[loc.user].global_streak >= a.threshold
      [] a.class = "habits" -> total_completed(d_b, loc.user) >= a.threshold
      [] a.class = "level" -> d_b.users[loc.user].level >= a.threshold
      [] OTHER -> loc.today - created_at(loc.user) >= a.threshold

\* The next achievement, from position i on, that the scan hands to _unlock and
\* that _unlock's own look-up ("doble check") does not find unlocked; 0 if none.
RECURSIVE next_unlock(_, _, _)
next_unlock(d_b, loc, i) ==
    IF i > Len(ACHIEVEMENTS) THEN 0
    ELSE IF /\ ACHIEVEMENTS[i].code \notin loc.unlocked_codes
            /\ achievement_due(d_b, loc, ACHIEVEMENTS[i])
            /\ d_b.user_achievements[loc.user][ACHIEVEMENTS[i].code] = 0
         THEN i
         ELSE next_unlock(d_b, loc, i + 1)

\* _unlock's change of the user row: the reward and the level of the new xp.
unlock_reward(user, achievement) ==
    IF achievement.xp_reward > 0
    THEN [user EXCEPT !.xp = user.xp + achievement.xp_reward,
                      !.level = calculate_level(user.xp + achievement.xp_reward)]
    ELSE user

StepAchScan(d_b, loc) ==
    LET i == next_unlock(d_b, loc, loc.idx)
        user == d_b.users[loc.user]
        new == unlock_reward(user, ACHIEVEMENTS[i])
    IN [db |-> d_b,
        loc |-> IF i = 0 THEN Finish(loc, "ok")
                ELSE [loc EXCEPT !.pend.ua = Some(ACHIEVEMENTS[i].code),
                                 !.pend.user = Some([vals |-> new, dirty |-> Dirty(user, new),
                                                      earned |-> new.xp - user.xp]),
                                 !.idx = i + 1, !.pc = "commit_unlock"]]

\* _unlock's db.commit(): the INSERT of the UserAchievement and the UPDATE of
\* the user in one transaction; a second row for the pair breaks
\* uq_user_achievement and the transaction is rolled back.
StepCommitUnlock(d_b, loc) ==
    LET u == loc.user
        code == loc.pend.ua[1]
    IN IF ~uq_user_achievement(d_b.user_achievements[u][code])
       THEN [db |-> d_b, loc |-> Finish(loc, "error")]
       ELSE [db |-> [d_b EXCEPT !.user_achievements[u][code] = @ + 1,
                                !.users[u] = ApplyDirty(d_b.users[u], loc.pend.user[1])],
             loc |-> [loc EXCEPT !.pend = NoPend,
                                 !.newly_unlocked = @ \cup {code},
                                 !.xp_granted = @ + loc.pend.user[1].earned,
                                 !.pc = "ach_scan"]]

(***************************************************************************)
(* One step of a handler, and a handler run to its end.                    *)
(***************************************************************************)
Step(d_b, loc) ==
    CASE loc.pc = "lookup" -> StepLookup(d_b, loc)
      [] loc.pc = "commit_log" -> StepCommitLog(d_b, loc)
      [] loc.pc = "habit_streak" -> StepHabitStreak(d_b, loc)
      [] loc.pc = "commit_habit" -> StepCommitHabit(d_b, loc)
      [] loc.pc = "global_streak" -> StepGlobalStreak(d_b, loc)
      [] loc.pc = "commit_global" -> StepCommitUser(d_b, loc, "award_xp")
      [] loc.pc = "award_xp" -> StepAwardXp(d_b, loc)
      [] loc.pc = "commit_xp" ->
            StepCommitUser(d_b, loc, IF loc.op = "log_habit" THEN "all_habits"
                                     ELSE "ach_begin")
      [] loc.pc = "all_habits" -> StepAllHabits(d_b, loc)
      [] loc.pc = "commit_all" -> StepCommitUser(d_b, loc, "ach_begin")
      [] loc.pc = "ach_begin" -> StepAchBegin(d_b, loc)
      [] loc.pc = "ach_scan" -> StepAchScan(d_b, loc)
      [] loc.pc = "commit_unlock" -> StepCommitUnlock(d_b, loc)
      [] OTHER -> [db |-> d_b, loc |-> loc]

RECURSIVE Run(_, _)
Run(d_b, loc) ==
    IF loc.pc = "done" THEN [db |-> d_b, loc |-> loc]
    ELSE LET r == Step(d_b, loc) IN Run(r.db, r.loc)

\* The session as a handler starts it.
Start(op, data, u, h, d, c, q, today_) ==
    [IdleLoc EXCEPT !.pc = "lookup", !.op = op, !.data = data, !.user = u,
                    !.habit_id = h, !.date = d, !.today = today_, !.completed = c,
                    !.quantity_logged = q]

(***************************************************************************)
(* scheduler.py midnight_check, for the server date today_.  failed is the *)
(* set of users to whom send_telegram_message fails.                       *)
(***************************************************************************)
\* A user query that leaves the mode out.
midnight_linked_users(d_b) == {u \in Users : d_b.users[u].telegram_id}

midnight_users(d_b) ==
    {u \in Users : d_b.users[u].telegram_id /\ d_b.users[u].mode # "vacation"}

midnight_resets(d_b, today_) ==
    {u \in midnight_users(d_b) :
        ~check_all_completed(d_b, u, today_ - 1) /\ d_b.users[u].global_streak > 0}

\* A reset that is always announced.
always_notified(old_streak) == TRUE

streak_broken_notified(old_streak) == old_streak >= 3

\* A pass that ends at the first message that cannot be sent.
visited_until_failure(d_b, today_, failed) ==
    {u \in midnight_users(d_b) :
        ~\E v \in failed : /\ v < u
                           /\ v \in midnight_resets(d_b, today_)
                           /\ d_b.users[v].global_streak >= 3}

\* The users the loop gets to: send_telegram_message returns False when the
\* bot is missing or the transport fails, and the loop goes on.
midnight_visited(d_b, today_, failed) == midnight_users(d_b)

midnight_check_db(d_b, today_, failed) ==
    [d_b EXCEPT !.users = [u \in Users |->
        IF u \in midnight_resets(d_b, today_) \cap midnight_visited(d_b, today_, failed)
        THEN [d_b.users[u] EXCEPT !.global_streak = 0]
        ELSE d_b.users[u]]]

RECURSIVE midnight_messages(_, _, _, _)
midnight_messages(d_b, today_, failed, u) ==
    IF u \notin Users THEN <<>>
    ELSE (IF u \in midnight_resets(d_b, today_) \cap midnight_visited(d_b, today_, failed)
             /\ streak_broken_notified(d_b.users[u].global_streak)
          THEN << [kind |-> "streak_broken", user |-> u,
                   old_streak |-> d_b.users[u].global_streak,
                   delivered |-> u \notin failed] >>
          ELSE <<>>)
         \o midnight_messages(d_b, today_, failed, u + 1)

(***************************************************************************)
(* State.                                                                  *)
(***************************************************************************)
VARIABLES db, sess, actor, today, mcDone, nops, outbox, last, ledger

vars == <<db, sess, actor, today, mcDone, nops, outbox, last, ledger>>

\* The user whose requests a run follows, with the settings of user 2 (PATCH
\* /auth/me sets mode, /auth/telegram-login links Telegram); user 1 is in
\* normal mode with Telegram linked.
Settings == {<<1, "normal", TRUE>>, <<2, "normal", FALSE>>, <<2, "vacation", TRUE>>,
             <<2, "sick", TRUE>>}

Init ==
    /\ \E st \in Settings : actor = st[1] /\ db = InitDb(st[2], st[3])
    /\ sess = [s \in Sessions |-> IdleLoc]
    /\ today = 1
    /\ mcDone = FALSE
    /\ nops = 0
    /\ outbox = <<>>
    /\ last = IdleLoc
    /\ ledger = 0

\* The (user, habit_id) pairs of the requests: each user's own habits, a habit
\* of another user and an id that no habit has.
Calls == {<<1, 1>>, <<1, 2>>, <<2, 3>>, <<1, 3>>, <<2, 4>>}

\* quantity_logged of a request: unset, or the target of a quantity habit.
QuantityInputs(h) ==
    IF h \in Habits /\ HabitTable[h].habit_type = "quantity" THEN {None, Some(2)}
    ELSE {None}

\* POST /habits/log
log_habit(u, h, d, c, q) ==
    /\ nops < MaxOps
    /\ u = actor
    /\ LET r == Run(db, Start("log_habit", "none", u, h, d, c, q, today))
       IN db' = r.db /\ last' = r.loc /\ ledger' = ledger + r.loc.xp_granted
    /\ nops' = nops + 1
    /\ UNCHANGED <<sess, actor, today, mcDone, outbox>>

\* The bot's callback_habit: habit_do_<id>, habit_undo_<id>, habit_qty_<id>
callback_habit(u, data, h) ==
    /\ nops < MaxOps
    /\ u = actor
    /\ db.users[u].telegram_id
    /\ LET r == Run(db, Start("callback_habit", data, u, h, today, data = "do", None,
                              today))
       IN db' = r.db /\ last' = r.loc /\ ledger' = ledger + r.loc.xp_granted
    /\ nops' = nops + 1
    /\ UNCHANGED <<sess, actor, today, mcDone, outbox>>

\* The scheduler's 00:05 job, once per server day.
midnight_check ==
    /\ ~mcDone
    /\ \E failed \in SUBSET Users :
          /\ db' = midnight_check_db(db, today, failed)
          /\ outbox' = outbox \o midnight_messages(db, today, failed, 1)
    /\ mcDone' = TRUE
    /\ last' = [IdleLoc EXCEPT !.pc = "done", !.op = "midnight_check", !.today = today]
    /\ UNCHANGED <<sess, actor, today, nops, ledger>>

\* Midnight passes.
NewDay ==
    /\ today < MaxDay
    /\ today' = today + 1
    /\ mcDone' = FALSE
    /\ UNCHANGED <<db, sess, actor, nops, outbox, last, ledger>>

Next ==
    \/ \E uh \in Calls, d \in Dates, c \in BOOLEAN :
          \E q \in QuantityInputs(uh[2]) : log_habit(uh[1], uh[2], d, c, q)
    \/ \E uh \in Calls, data \in {"do", "undo", "qty"} :
          callback_habit(uh[1], data, uh[2])
    \/ midnight_check
    \/ NewDay

Spec == Init /\ [][Next]_vars


(***************************************************************************)
(* Two sessions at once.  FastAPI runs log_habit (a sync endpoint) in a    *)
(* thread pool, one session per request; the bot's callback_habit runs in  *)
(* the event loop, which runs its database code of one callback at a time. *)
(* The sessions start on a store in which the user has completed all his   *)
(* habits on the first k dates through log_habit, one request after the    *)
(* other.                                                                  *)
(***************************************************************************)
RECURSIVE CompleteHabits(_, _, _, _)
CompleteHabits(d_b, u, d, hs) ==
    IF hs = {} THEN d_b
    ELSE LET h == CHOOSE x \in hs : \A y \in hs : x <= y
         IN CompleteHabits(Run(d_b, Start("log_habit", "none", u, h, d, TRUE, None, 1)).db,
                           u, d, hs \ {h})

RECURSIVE History(_, _, _)
History(d_b, u, k) ==
    IF k = 0 THEN d_b
    ELSE CompleteHabits(History(d_b, u, k - 1), u, k, active_habits(u))

InitConc ==
    /\ \E st \in Settings, k \in 0..MaxHistory :
          /\ actor = st[1]
          /\ db = History(InitDb(st[2], st[3]), st[1], k)
    /\ sess = [s \in Sessions |-> IdleLoc]
    /\ today = 1
    /\ mcDone = FALSE
    /\ nops = 0
    /\ outbox = <<>>
    /\ last = IdleLoc
    /\ ledger = db.users[actor].xp

Idle(s) == sess[s].pc = "idle"

BeginLogHabit(s, u, h, d, c, q) ==
    /\ nops < MaxConcOps
    /\ u = actor
    /\ Idle(s)
    /\ sess' = [sess EXCEPT ![s] = Start("log_habit", "none", u, h, d, c, q, today)]
    /\ nops' = nops + 1
    /\ UNCHANGED <<db, actor, today, mcDone, outbox, last, ledger>>

BeginCallbackHabit(s, u, data, h) ==
    /\ nops < MaxConcOps
    /\ u = actor
    /\ db.users[u].telegram_id
    /\ Idle(s)
    /\ \A t \in Sessions : sess[t].op # "callback_habit"
    /\ sess' = [sess EXCEPT ![s] = Start("callback_habit", data, u, h, today, data = "do",
                                         None, today)]
    /\ nops' = nops + 1
    /\ UNCHANGED <<db, actor, today, mcDone, outbox, last, ledger>>

\* One read-and-compute step or one commit of the handler of session s.
SessionStep(s) ==
    /\ sess[s].pc \notin {"idle", "done"}
    /\ LET r == Step(db, sess[s])
       IN db' = r.db /\ sess' = [sess EXCEPT ![s] = r.loc]
    /\ UNCHANGED <<actor, today, mcDone, nops, outbox, last, ledger>>

\* The handler returns (or raises) and its session is closed.
Return(s) ==
    /\ sess[s].pc = "done"
    /\ last' = sess[s]
    /\ ledger' = ledger + sess[s].xp_granted
    /\ sess' = [sess EXCEPT ![s] = IdleLoc]
    /\ UNCHANGED <<db, actor, today, mcDone, nops, outbox>>

NextConc ==
    \/ \E s \in Sessions, uh \in Calls, d \in Dates, c \in BOOLEAN :
          \E q \in QuantityInputs(uh[2]) : BeginLogHabit(s, uh[1], uh[2], d, c, q)
    \/ \E s \in Sessions, uh \in Calls, data \in {"do", "undo", "qty"} :
          BeginCallbackHabit(s, uh[1], data, uh[2])
    \/ \E s \in Sessions : SessionStep(s)
    \/ \E s \in Sessions : Return(s)

SpecConc == InitConc /\ [][NextConc]_vars


(***************************************************************************)
(* A request that stalls.  The log_habit of session 1 is held up between   *)
(* two of its steps while the server answers MaxOps other requests from    *)
(* start to end, and then a log_habit of session 2 runs beside it.         *)
(***************************************************************************)
StalledLogHabit(u, h, d, c, q) ==
    /\ nops = 0
    /\ last = IdleLoc
    /\ u = actor
    /\ Idle(1)
    /\ sess' = [sess EXCEPT ![1] = Start("log_habit", "none", u, h, d, c, q, today)]
    /\ UNCHANGED <<db, actor, today, mcDone, nops, outbox, last, ledger>>

LateLogHabit(u, h, d, c, q) ==
    /\ nops = MaxOps
    /\ u = actor
    /\ Idle(2)
    /\ sess' = [sess EXCEPT ![2] = Start("log_habit", "none", u, h, d, c, q, today)]
    /\ nops' = nops + 1
    /\ UNCHANGED <<db, actor, today, mcDone, outbox, last, ledger>>

\* The stalled session moves before the other requests and beside the late one.
StallStep(s) ==
    /\ nops \in {0, MaxOps + 1}
    /\ SessionStep(s)

\* The requests of a user for his own habits.
OwnCalls == {uh \in Calls : uh[2] \in Habits /\ HabitTable[uh[2]].user_id = uh[1]}

\* The runs of the user who has a single habit and has linked Telegram; all
\* the requests complete that habit, through log_habit for some date or with
\* the bot's button for today.
InitStall ==
    /\ Init
    /\ Cardinality(active_habits(actor)) = 1
    /\ db.users[actor].telegram_id

NextStall ==
    \/ \E uh \in OwnCalls, d \in Dates : StalledLogHabit(uh[1], uh[2], d, TRUE, None)
    \/ \E uh \in OwnCalls, d \in Dates : log_habit(uh[1], uh[2], d, TRUE, None)
    \/ \E uh \in OwnCalls : callback_habit(uh[1], "do", uh[2])
    \/ \E uh \in OwnCalls, d \in Dates : LateLogHabit(uh[1], uh[2], d, TRUE, None)
    \/ \E s \in Sessions : StallStep(s)
    \/ \E s \in Sessions : Return(s)

SpecStall == InitStall /\ [][NextStall]_vars


(***************************************************************************)
(* Properties of the handlers run one after the other (Spec).              *)
(***************************************************************************)
\* A step of Spec in which a mark handler has run: last' is its session.
Handled == nops' = nops + 1

\* The handler that has run had a habit of its user to work on.
FoundHabit(loc) == loc.habit_id \in Habits /\ HabitTable[loc.habit_id].user_id = loc.user

\* The active habits of u that apply on date d.
applicable_habits(u, d) == {h \in active_habits(u) : habit_applies_today(HabitTable[h], d)}

\* C1: marking as completed, through log_habit or through the bot's
\* _mark_habit, a log that is already completed leaves the habit's
\* current_streak, the user's xp and the log's completed_at as they were.
C1_RemarkChangesNothing ==
    [][(/\ Handled
        /\ FoundHabit(last')
        /\ last'.op = "log_habit" \/ last'.data = "do"
        /\ last'.completed
        /\ CompletedLog(db, last'.habit_id, last'.date))
       => /\ db'.habits[last'.habit_id].current_streak
                = db.habits[last'.habit_id].current_streak
          /\ db'.users[last'.user].xp = db.users[last'.user].xp
          /\ db'.habit_logs[last'.habit_id][last'.date][1].completed_at
                = db.habit_logs[last'.habit_id][last'.date][1].completed_at]_vars

\* C6: in every state the global streak of a user is at most his best global
\* streak and the current streak of a habit is at most its best streak.
C6_StreakAtMostBest ==
    /\ \A u \in Users : db.users[u].global_streak <= db.users[u].best_global_streak
    /\ \A h \in Habits : db.habits[h].current_streak <= db.habits[h].best_streak

\* C7: a handler that calls update_global_streak for a date on which an
\* applicable active habit has no completed log leaves global_streak and
\* best_global_streak as they were, each time it is called.
C7_IncompleteDayKeepsStreak ==
    [][(/\ Handled
        /\ FoundHabit(last')
        /\ last'.gamify = "complete"
        /\ ~check_all_completed(db', last'.user, last'.date))
       => /\ db'.users[last'.user].global_streak = db.users[last'.user].global_streak
          /\ db'.users[last'.user].best_global_streak
                = db.users[last'.user].best_global_streak]_vars

\* update_global_streak has been called for an incomplete date of a user whose
\* global streak is positive.
C7_Witness ==
    /\ last.gamify = "complete"
    /\ FoundHabit(last)
    /\ ~check_all_completed(db, last.user, last.date)
    /\ db.users[last.user].global_streak > 0

\* C8: when a user with two or more applicable habits completes them one at
\* a time on a date, a mark call that completes one of them changes
\* global_streak only if it completes the last one that remained.
C8_OnlyLastCallChangesStreak ==
    [][(/\ Handled
        /\ FoundHabit(last')
        /\ last'.gamify = "complete"
        /\ ~CompletedLog(db, last'.habit_id, last'.date)
        /\ Cardinality(applicable_habits(last'.user, last'.date)) >= 2
        /\ db'.users[last'.user].global_streak # db.users[last'.user].global_streak)
       => /\ check_all_completed(db', last'.user, last'.date)
          /\ ~check_all_completed(db, last'.user, last'.date)]_vars

\* The second of two mark calls has completed the last habit of a date with
\* two applicable habits, and the global streak has gone up.
C8_Witness ==
    /\ nops = 2
    /\ last.gamify = "complete"
    /\ ~last.was_already_completed
    /\ Cardinality(applicable_habits(last.user, last.date)) >= 2
    /\ check_all_completed(db, last.user, last.date)
    /\ db.users[last.user].global_streak = 1

\* C9: the midnight check sets to 0 the global streak of every user who is not
\* in vacation mode, whose day just ended is not fully completed and whose
\* global streak is positive.
C9_EveryBrokenStreakReset ==
    [][(mcDone' /\ ~mcDone)
       => \A u \in Users :
             (/\ db.users[u].mode # "vacation"
              /\ ~check_all_completed(db, u, today - 1)
              /\ db.users[u].global_streak > 0)
             => db'.users[u].global_streak = 0]_vars

\* C10: when the midnight check resets a global streak, a streak-broken
\* message with the old value is sent exactly if the old value is 3 or more,
\* and best_global_streak stays as it was.
C10_NotifiedFromThree ==
    [][(mcDone' /\ ~mcDone)
       => \A u \in Users :
             (db.users[u].global_streak > 0 /\ db'.users[u].global_streak = 0)
             => /\ (\E i \in (Len(outbox) + 1)..Len(outbox') :
                       /\ outbox'[i].kind = "streak_broken"
                       /\ outbox'[i].user = u
                       /\ outbox'[i].old_streak = db.users[u].global_streak)
                    <=> db.users[u].global_streak >= 3
                /\ db'.users[u].best_global_streak = db.users[u].best_global_streak]_vars

\* A streak of 3 has been reset and announced; the best streak is still 3.
C10_Witness ==
    /\ mcDone
    /\ \E i \in DOMAIN outbox :
          /\ outbox[i].old_streak = 3
          /\ db.users[outbox[i].user].global_streak = 0
          /\ db.users[outbox[i].user].best_global_streak = 3


(***************************************************************************)
(* Properties of two sessions at once (SpecConc).                          *)
(***************************************************************************)
\* Session s has run its handler to the end and has not returned yet.
Done(s) == sess[s].pc = "done"

\* Session s has completed a habit's log that was not completed before.
Completed(s) ==
    /\ Done(s) /\ FoundHabit(sess[s])
    /\ sess[s].gamify = "complete" /\ ~sess[s].was_already_completed

\* C2: whatever the interleaving of the mark and increment handlers of two
\* sessions on one (habit, date), the table holds at most one HabitLog row for
\* a (habit_id, date).
C2_OneLogPerHabitDate ==
    \A h \in Habits, d \in Dates : Len(db.habit_logs[h][d]) <= 1

\* Two sessions found no row for a (habit, date) and both went on to insert
\* one: the second commit has failed and the table holds one row.
C2_Witness ==
    \E s \in Sessions :
        /\ Done(s) /\ sess[s].result = "error" /\ sess[s].idx = 0
        /\ Len(db.habit_logs[sess[s].habit_id][sess[s].date]) = 1

\* C3: when two sessions have each completed a different habit of one user,
\* the user's xp holds the awards of both.
C3_BothAwardsKept ==
    (/\ Completed(1) /\ Completed(2)
     /\ sess[1].user = sess[2].user
     /\ sess[1].habit_id # sess[2].habit_id
     /\ sess[1].result = "ok" /\ sess[2].result = "ok")
    => db.users[sess[1].user].xp = ledger + sess[1].xp_granted + sess[2].xp_granted

\* C4: when two sessions run check_and_unlock_achievements for one user,
\* there is one UserAchievement row for an achievement at most and neither
\* run ends in an error.
C4_UnlockOnceWithoutError ==
    /\ \A u \in Users, c \in Codes : db.user_achievements[u][c] <= 1
    /\ \A s \in Sessions : (Done(s) /\ sess[s].idx > 0) => sess[s].result # "error"

\* C5: in every state the level of a user is calculate_level of his xp.
C5_LevelMatchesXp ==
    \A u \in Users : db.users[u].level = calculate_level(db.users[u].xp)


\* C11: the midnight check never changes the global streak of a user whose
\* mode is vacation, not even when the day just ended is incomplete and the
\* streak is positive.
C11_VacationKeepsStreak ==
    [][(mcDone' /\ ~mcDone)
       => \A u \in Users :
             db.users[u].mode = "vacation"
             => db'.users[u].global_streak = db.users[u].global_streak]_vars

\* The midnight check has run over a user in vacation mode who has a streak
\* and had not completed the day just ended.
C11_Witness ==
    /\ mcDone
    /\ last.op = "midnight_check"
    /\ \E u \in Users :
          /\ db.users[u].mode = "vacation"
          /\ db.users[u].telegram_id
          /\ db.users[u].global_streak > 0
          /\ ~check_all_completed(db, u, today - 1)


(***************************************************************************)
(* An account over its first weeks.  XP also comes from handlers that      *)
(* never look at the achievements: POST /tracking/exercise awards          *)
(* "exercise_log" and commits.  check_and_unlock_achievements is the call  *)
(* log_habit, complete_pomodoro and callback_habit end with.               *)
(***************************************************************************)
MaxExercise == 66
MaxAge == 8

\* POST /tracking/exercise
log_exercise(u) ==
    /\ nops < MaxExercise
    /\ u = actor
    /\ db' = [db EXCEPT !.users[u] = award_xp(db.users[u], "exercise_log", 0)]
    /\ nops' = nops + 1
    /\ last' = [IdleLoc EXCEPT !.pc = "done", !.op = "log_exercise", !.user = u,
                               !.today = today,
                               !.xp_granted = award_total_xp("exercise_log", 0)]
    /\ ledger' = ledger + award_total_xp("exercise_log", 0)
    /\ UNCHANGED <<sess, actor, today, mcDone, outbox>>

\* gamification.py check_and_unlock_achievements(db, user), from its first
\* query to its return.
check_and_unlock_achievements(u) ==
    /\ u = actor
    /\ LET r == Run(db, [IdleLoc EXCEPT !.pc = "ach_begin",
                                        !.op = "check_and_unlock_achievements",
                                        !.user = u, !.today = today])
       IN db' = r.db /\ last' = r.loc /\ ledger' = ledger + r.loc.xp_granted
    /\ UNCHANGED <<sess, actor, today, mcDone, nops, outbox>>

\* A day of the account's life passes.
DayPasses ==
    /\ today < MaxAge
    /\ today' = today + 1
    /\ UNCHANGED <<db, sess, actor, mcDone, nops, outbox, last, ledger>>

NextAccount ==
    \/ \E u \in Users : log_exercise(u)
    \/ \E u \in Users : check_and_unlock_achievements(u)
    \/ DayPasses

SpecAccount == Init /\ [][NextAccount]_vars

\* C12: a call of check_and_unlock_achievements that follows another one for
\* the same user, with nothing changed in between, returns an empty list,
\* creates no UserAchievement row and grants no XP.
C12_SecondCallUnlocksNothing ==
    [][(/\ last.op = "check_and_unlock_achievements"
        /\ last.today = today
        /\ today' = today
        /\ nops' = nops)
       => /\ last'.newly_unlocked = {}
          /\ last'.xp_granted = 0
          /\ db'.user_achievements = db.user_achievements
          /\ db'.users = db.users]_vars


(***************************************************************************)
(* More properties of the handlers run one after the other (Spec).         *)
(***************************************************************************)
\* C13: in every reachable state each HabitLog has completed_at set exactly
\* when completed is true, whether the API or the bot wrote the row.
C13_StampedIffCompleted ==
    \A h \in Habits, d \in Dates :
        \A i \in DOMAIN db.habit_logs[h][d] :
            (db.habit_logs[h][d][i].completed_at # None)
                <=> db.habit_logs[h][d][i].completed


\* The store as the other front end would have left it: the bot's
\* callback_habit for a log_habit request, log_habit for a bot callback.
OtherFrontEnd(d_b, loc) ==
    IF loc.op = "log_habit"
    THEN Run(d_b, Start("callback_habit", IF loc.completed THEN "do" ELSE "undo",
                        loc.user, loc.habit_id, loc.date, loc.completed, None,
                        loc.today)).db
    ELSE Run(d_b, Start("log_habit", "none", loc.user, loc.habit_id, loc.date,
                        loc.completed, None, loc.today)).db

\* C14: from the same state, a mark-complete or un-mark of a habit for today
\* leaves the same habit streaks, global streak, XP and level whether it goes
\* through log_habit or through the bot's _mark_habit.
C14_SameThroughApiAndBot ==
    [][(/\ Handled
        /\ FoundHabit(last')
        /\ last'.data # "qty"
        /\ last'.quantity_logged = None
        /\ last'.date = last'.today
        /\ db.users[last'.user].telegram_id)
       => /\ OtherFrontEnd(db, last').habits = db'.habits
          /\ OtherFrontEnd(db, last').users = db'.users]_vars


\* C15: un-marking, for today, a habit whose log for today is completed sets
\* the habit's current_streak to 0 whatever it was and leaves best_streak as
\* it was.
C15_UnmarkResetsStreak ==
    [][(/\ Handled
        /\ FoundHabit(last')
        /\ last'.data # "qty"
        /\ ~last'.completed
        /\ last'.date = last'.today
        /\ CompletedLog(db, last'.habit_id, last'.date))
       => /\ db'.habits[last'.habit_id].current_streak = 0
          /\ db'.habits[last'.habit_id].best_streak
                = db.habits[last'.habit_id].best_streak]_vars

\* A habit with a streak of two days has been un-marked for today.
C15_Witness ==
    /\ last.pc = "done"
    /\ last.op \in {"log_habit", "callback_habit"}
    /\ last.data # "qty"
    /\ FoundHabit(last)
    /\ ~last.completed
    /\ last.was_already_completed
    /\ last.date = last.today
    /\ ~CompletedLog(db, last.habit_id, last.date)
    /\ CompletedLog(db, last.habit_id, last.date - 1)
    /\ db.habits[last.habit_id].current_streak = 0
    /\ db.habits[last.habit_id].best_streak = 2

\* C16: when a handler runs update_habit_streak for a completion on date D,
\* current_streak grows by exactly 1 if the habit has a completed log for
\* D - 1 and becomes 1 otherwise, and best_streak is then the larger of the
\* old best_streak and the new current_streak.
C16_CompletionStreak ==
    [][(/\ Handled
        /\ FoundHabit(last')
        /\ last'.gamify = "complete")
       => /\ db'.habits[last'.habit_id].current_streak
                = IF CompletedLog(db, last'.habit_id, last'.date - 1)
                  THEN db.habits[last'.habit_id].current_streak + 1
                  ELSE 1
          /\ db'.habits[last'.habit_id].best_streak
                = Max(db.habits[last'.habit_id].best_streak,
                      db'.habits[last'.habit_id].current_streak)]_vars

\* A completion on the day after a completed day has taken the streak and the
\* best streak from 1 to 2.
C16_Witness ==
    /\ last.pc = "done"
    /\ last.gamify = "complete"
    /\ FoundHabit(last)
    /\ CompletedLog(db, last.habit_id, last.date - 1)
    /\ db.habits[last.habit_id].current_streak = 2
    /\ db.habits[last.habit_id].best_streak = 2


(***************************************************************************)
(* The calculators on their own: award_xp and calculate_level applied to   *)
(* arguments drawn from bounded sets.  last holds the call: its arguments, *)
(* and its outcome once it has returned.                                   *)
(***************************************************************************)
MaxStreak == 101
MaxXp == 1050
MaxGap == 50

\* The actions of the reward table and one that is not in it.
ActionInputs == DOMAIN XP_REWARDS \cup {"unknown_action"}

\* The xp of the user before the award: a new user, a user just below level 2,
\* a user in level 3.
XpBefore == {0, 95, 590}

CalcInput(op, action, streak, xp, x1, x2) ==
    [pc |-> "input", op |-> op, action |-> action, streak |-> streak,
     user |-> [NewUser("normal", TRUE) EXCEPT !.xp = xp, !.level = calculate_level(xp)],
     x1 |-> x1, x2 |-> x2, out |-> None]

\* Habit.frequency: the three values the code knows, another string, and
\* "null" for a frequency that is not set.
FrequencyInputs == {"daily", "specific_days", "times_per_week", "monthly", "null"}

\* Habit.specific_days is a subset of these; the empty set stands for an
\* empty list and for a missing one, which the code's test does not tell apart.
DayInputs == {"mon", "tue", "sun"}

InitCalc ==
    /\ db = InitDb("normal", TRUE)
    /\ sess = [s \in Sessions |-> IdleLoc]
    /\ actor = 1
    /\ today = 1
    /\ mcDone = FALSE
    /\ nops = 0
    /\ outbox = <<>>
    /\ ledger = 0
    /\ \/ \E a \in ActionInputs, s \in -1 .. MaxStreak, x \in XpBefore :
             last = CalcInput("award_xp", a, s, x, 0, 0)
       \/ \E x1 \in -2 .. MaxXp, g \in 1 .. MaxGap :
             last = CalcInput("calculate_level", "none", 0, 0, x1, x1 + g)
       \/ \E f \in FrequencyInputs, days \in SUBSET DayInputs, d \in 1 .. MaxAge :
             last = [pc |-> "input", op |-> "habit_applies_today",
                     habit |-> [frequency |-> f, specific_days |-> days],
                     check_date |-> d, out |-> None]

\* award_xp(db, user, action, streak)
CallAwardXp ==
    /\ last.pc = "input"
    /\ last.op = "award_xp"
    /\ last' = [last EXCEPT
                  !.pc = "done",
                  !.out = Some([user |-> award_xp(last.user, last.action, last.streak),
                                result |-> award_xp_result(last.user, last.action,
                                                           last.streak)])]
    /\ UNCHANGED <<db, sess, actor, today, mcDone, nops, outbox, ledger>>

\* calculate_level(x1) and calculate_level(x2)
CallCalculateLevel ==
    /\ last.pc = "input"
    /\ last.op = "calculate_level"
    /\ last' = [last EXCEPT !.pc = "done",
                            !.out = Some(<<calculate_level(last.x1),
                                           calculate_level(last.x2)>>)]
    /\ UNCHANGED <<db, sess, actor, today, mcDone, nops, outbox, ledger>>

\* habit_applies_today(habit, check_date)
CallHabitAppliesToday ==
    /\ last.pc = "input"
    /\ last.op = "habit_applies_today"
    /\ last' = [last EXCEPT !.pc = "done",
                            !.out = Some(habit_applies_today(last.habit, last.check_date))]
    /\ UNCHANGED <<db, sess, actor, today, mcDone, nops, outbox, ledger>>

NextCalc == CallAwardXp \/ CallCalculateLevel \/ CallHabitAppliesToday

SpecCalc == InitCalc /\ [][NextCalc]_vars

\* An award_xp call, a calculate_level call, that has returned.
Awarded == last.pc = "done" /\ last.op = "award_xp"

Levelled == last.pc = "done" /\ last.op = "calculate_level"

\* The table value of the largest threshold that is at most the streak, in
\* hundredths; 100 when the streak is below every threshold.
table_multiplier(streak) ==
    LET reached == {i \in DOMAIN STREAK_MULTIPLIERS : STREAK_MULTIPLIERS[i][1] <= streak}
        top == CHOOSE i \in reached :
                  \A j \in reached : STREAK_MULTIPLIERS[j][1] <= STREAK_MULTIPLIERS[i][1]
    IN IF reached = {} THEN 100 ELSE STREAK_MULTIPLIERS[top][2]

\* C17: award_xp adds floor(base XP of the action * multiplier) to user.xp,
\* the multiplier being the table value of the largest threshold at most the
\* streak and 1.0 for a streak of 0 or below the smallest threshold; for an
\* action that is not in the reward table it leaves xp and level as they were
\* and reports zero XP.
C17_AwardIsFloorOfBaseTimesMultiplier ==
    Awarded =>
        LET before == last.user
            after == last.out[1].user
            earned == after.xp - before.xp
            product == XP_REWARDS[last.action] * table_multiplier(last.streak)
        IN IF last.action \in DOMAIN XP_REWARDS
           THEN /\ 100 * earned <= product
                /\ product < 100 * (earned + 1)
                /\ last.out[1].result.total_xp = earned
           ELSE /\ after.xp = before.xp
                /\ after.level = before.level
                /\ last.out[1].result.xp_earned = 0

\* A completion worth 10 with a streak of 8 has earned 15.
C17_Witness ==
    /\ Awarded
    /\ last.action = "habit_complete"
    /\ last.streak = 8
    /\ last.out[1].user.xp - last.user.xp = 15

\* C18: calculate_level never goes down as the XP goes up, from 0 on, and
\* returns a level of at least 1 for every input.
C18_LevelMonotone ==
    Levelled =>
        /\ last.out[1][1] >= 1
        /\ last.out[1][2] >= 1
        /\ ((last.x1 >= 0 /\ last.x1 < last.x2) => last.out[1][1] <= last.out[1][2])

\* calculate_level has been applied to two amounts of XP that lie in
\* different levels.
C18_Witness ==
    /\ Levelled
    /\ last.x1 >= 0
    /\ last.x1 < last.x2
    /\ last.out[1][1] < last.out[1][2]

\* The XP that L levels cost: the sum of 100 * k for k from 1 to L.
RECURSIVE levels_cost(_)
levels_cost(L) == IF L = 0 THEN 0 ELSE 100 * L + levels_cost(L - 1)

\* C19: for every L >= 1, calculate_level of the sum of 100 * k for k = 1..L
\* is L + 1, and calculate_level of that sum minus 1 is L.
C19_LevelAtThreshold ==
    Levelled =>
        \A L \in 1 .. (last.x2 \div 100) :
            (last.x1 = last.x2 - 1 /\ last.x2 = levels_cost(L))
                => (last.out[1][2] = L + 1 /\ last.out[1][1] = L)

\* calculate_level has been applied to the cost of four levels and to one XP
\* less.
C19_Witness ==
    /\ Levelled
    /\ last.x2 = levels_cost(4)
    /\ last.x1 = last.x2 - 1
    /\ last.out[1] = <<4, 5>>


(***************************************************************************)
(* More properties of two sessions at once (SpecConc).                     *)
(***************************************************************************)
\* C20: a session whose creation of the (habit, date) log loses to the
\* creation of the same log by the other session goes on with the existing
\* row and ends normally: the conflict on uq_habit_date never ends the handler
\* in an error.
C20_RaceLoserCompletes ==
    \A s \in Sessions :
        (/\ Done(s)
         /\ FoundHabit(sess[s])
         /\ sess[s].idx = 0
         /\ Len(db.habit_logs[sess[s].habit_id][sess[s].date]) >= 1)
        => sess[s].result = "ok"


(***************************************************************************)
(* The scheduler's pass over several users with streaks.  Each user has    *)
(* completed all his habits on his first k dates through log_habit, and    *)
(* the server date is a later one: the job has not run since (it runs only *)
(* while the process with the bot is up at 00:05).                         *)
(***************************************************************************)
InitMidnight ==
    /\ \E st \in Settings, t \in 1 .. MaxAge :
          \E k1 \in 0 .. MaxDay, k2 \in 0 .. MaxDay :
             /\ k1 < t /\ k2 < t
             /\ actor = st[1]
             /\ db = History(History(InitDb(st[2], st[3]), 1, k1), 2, k2)
             /\ today = t
    /\ sess = [s \in Sessions |-> IdleLoc]
    /\ mcDone = FALSE
    /\ nops = 0
    /\ outbox = <<>>
    /\ last = IdleLoc
    /\ ledger = 0

\* Midnight passes.
NightFalls ==
    /\ today < MaxAge
    /\ today' = today + 1
    /\ mcDone' = FALSE
    /\ UNCHANGED <<db, sess, actor, nops, outbox, last, ledger>>

NextMidnight == midnight_check \/ NightFalls

SpecMidnight == InitMidnight /\ [][NextMidnight]_vars

\* C21: when a streak-broken message cannot be sent, the reset that caused it
\* stays committed (global_streak is 0) and the pass goes on: every other
\* linked user outside vacation whose day was incomplete is reset as well, and
\* told so from a streak of 3.
C21_FailedMessageKeepsReset ==
    [][(mcDone' /\ ~mcDone)
       => /\ \A i \in (Len(outbox) + 1) .. Len(outbox') :
                ~outbox'[i].delivered => db'.users[outbox'[i].user].global_streak = 0
          /\ \A u \in Users :
                (/\ db.users[u].telegram_id
                 /\ db.users[u].mode # "vacation"
                 /\ ~check_all_completed(db, u, today - 1)
                 /\ db.users[u].global_streak > 0)
                => /\ db'.users[u].global_streak = 0
                   /\ db.users[u].global_streak >= 3
                      => \E i \in (Len(outbox) + 1) .. Len(outbox') :
                            outbox'[i].user = u]_vars

\* The message to the first user could not be sent; his streak is reset, and
\* the second user has been reset and told after him.
C21_Witness ==
    /\ mcDone
    /\ Len(outbox) = 2
    /\ outbox[1].user = 1 /\ ~outbox[1].delivered
    /\ outbox[2].user = 2
    /\ db.users[1].global_streak = 0 /\ db.users[1].best_global_streak >= 3
    /\ db.users[2].global_streak = 0 /\ db.users[2].best_global_streak >= 3


(***************************************************************************)
(* Properties of the bot's quantity button and of unknown habits (Spec).   *)
(***************************************************************************)
\* C22: a quantity increment on a habit of type boolean is turned down as an
\* error of the caller and leaves the habit's logs, the habit's streak and
\* the user's xp as they were.
C22_IncrementOnBooleanRejected ==
    [][(/\ Handled
        /\ last'.op = "callback_habit"
        /\ last'.data = "qty"
        /\ FoundHabit(last')
        /\ HabitTable[last'.habit_id].habit_type = "boolean")
       => /\ last'.result # "ok"
          /\ db'.habit_logs[last'.habit_id] = db.habit_logs[last'.habit_id]
          /\ db'.habits[last'.habit_id] = db.habits[last'.habit_id]
          /\ db'.users[last'.user].xp = db.users[last'.user].xp]_vars


\* C23: a date on which no habit of the user applies never changes his
\* global_streak: a handler working on a log of that date does not extend it
\* and the midnight check of that date does not reset it.
C23_EmptyDayKeepsStreak ==
    [][/\ (Handled /\ last'.user \in Users
           /\ applicable_habits(last'.user, last'.date) = {})
          => db'.users[last'.user].global_streak = db.users[last'.user].global_streak
       /\ (mcDone' /\ ~mcDone)
          => \A u \in Users :
                applicable_habits(u, today - 1) = {}
                => db'.users[u].global_streak = db.users[u].global_streak]_vars


(***************************************************************************)
(* scheduler.py check_reminders at one tick, for one user and one of his   *)
(* reminders.  last holds the user's row, the reminder's row and the       *)
(* instant of the tick, in minutes of a week of UTC (0 is Monday 00:00);   *)
(* outbox receives the senders that _send_reminder calls.                  *)
(***************************************************************************)
\* Monday 06:00 and 07:00, Sunday 06:00 and 23:30 (UTC).
Ticks == {360, 420, 9000, 10050}

ReminderTypes == {"morning", "weekly_summary", "routine", "custom", "habits"}

ReminderDays == {None, Some({}), Some({"mon"}), Some({"sun"})}

\* pytz.timezone(user.timezone or "Europe/Madrid"), in a week of winter time.
utc_offset(timezone) == IF timezone = Some("UTC") THEN 0 ELSE 60

\* datetime.now(tz)
user_now(now, timezone) == (now + utc_offset(timezone)) % (7 * 1440)

Digit == <<"0", "1", "2", "3", "4", "5", "6", "7", "8", "9">>

\* user_now.strftime("%H:%M")
strftime_HM(t) ==
    LET hh == (t % 1440) \div 60
        mm == t % 60
    IN Digit[(hh \div 10) + 1] \o Digit[(hh % 10) + 1] \o ":"
       \o Digit[(mm \div 10) + 1] \o Digit[(mm % 10) + 1]

\* user_now.weekday()
now_weekday(t) == t \div 1440

\* The users query of check_reminders.
reminder_user(user) ==
    user.telegram_id /\ ~user.do_not_disturb /\ user.mode # "vacation"

\* The reminders query of check_reminders and the test of the days.
reminder_matches(reminder, t) ==
    /\ reminder.active
    /\ reminder.time = strftime_HM(t)
    /\ ~(/\ reminder.days # None
         /\ reminder.days[1] # {}
         /\ day_names[now_weekday(t) + 1] \notin reminder.days[1])

\* _send_reminder: the sender it calls for the reminder, if any.
send_reminder(reminder, t) ==
    CASE reminder.type \in {"morning", "midday", "evening", "night", "summary"} ->
            << [kind |-> "reminder", type |-> reminder.type] >>
      [] reminder.type = "weekly_summary" ->
            IF now_weekday(t) = 6 THEN << [kind |-> "reminder", type |-> reminder.type] >>
            ELSE <<>>
      [] reminder.type = "routine" /\ reminder.linked_routine_id ->
            << [kind |-> "reminder", type |-> reminder.type] >>
      [] reminder.type = "custom" /\ reminder.message ->
            << [kind |-> "reminder", type |-> reminder.type] >>
      [] OTHER -> <<>>

InitReminders ==
    /\ db = InitDb("normal", TRUE)
    /\ sess = [s \in Sessions |-> IdleLoc]
    /\ actor = 1
    /\ today = 1
    /\ mcDone = FALSE
    /\ nops = 0
    /\ outbox = <<>>
    /\ ledger = 0
    /\ \E tg \in BOOLEAN, dnd \in BOOLEAN, mode \in {"normal", "vacation"},
          tz \in {None, Some("UTC"), Some("Europe/Madrid")} :
          \E type \in ReminderTypes, time \in {"07:00", "00:30"}, days \in ReminderDays,
             message \in BOOLEAN, routine \in BOOLEAN, active \in BOOLEAN, now \in Ticks :
             last = [pc |-> "input", op |-> "check_reminders",
                     user |-> [telegram_id |-> tg, do_not_disturb |-> dnd, mode |-> mode,
                               timezone |-> tz],
                     reminder |-> [type |-> type, time |-> time, days |-> days,
                                   message |-> message, linked_routine_id |-> routine,
                                   active |-> active],
                     now |-> now]

\* The job of every minute.
check_reminders ==
    /\ last.pc = "input"
    /\ last.op = "check_reminders"
    /\ LET t == user_now(last.now, last.user.timezone)
       IN outbox' = IF reminder_user(last.user) /\ reminder_matches(last.reminder, t)
                    THEN send_reminder(last.reminder, t)
                    ELSE <<>>
    /\ last' = [last EXCEPT !.pc = "done"]
    /\ UNCHANGED <<db, sess, actor, today, mcDone, nops, ledger>>

NextReminders == check_reminders

SpecReminders == InitReminders /\ [][NextReminders]_vars

\* C24: at a tick, for a user the bot can write to, check_reminders emits a
\* notification for a reminder exactly if the user has do_not_disturb off and
\* is not in vacation mode, the reminder is active, its time is the user's
\* local HH:MM and its days are unset (or empty) or hold the user's local
\* weekday; and a reminder for which this holds yields exactly one
\* notification of its type.
C24_ReminderEmittedIffDue ==
    (last.pc = "done" /\ last.op = "check_reminders" /\ last.user.telegram_id)
    => LET t == user_now(last.now, last.user.timezone)
           due == /\ ~last.user.do_not_disturb
                  /\ last.user.mode # "vacation"
                  /\ last.reminder.active
                  /\ last.reminder.time = strftime_HM(t)
                  /\ \/ last.reminder.days \in {None, Some({})}
                     \/ day_names[now_weekday(t) + 1] \in last.reminder.days[1]
       IN /\ due <=> outbox # <<>>
          /\ due => outbox = << [kind |-> "reminder", type |-> last.reminder.type] >>


\* C25: a quantity increment adds 1 to the day's quantity_logged (the log is
\* created with 1 if there is none); the log is completed afterwards exactly
\* if it was before or the new total reaches target_quantity; and an
\* increment of a log that is already completed changes neither the habit's
\* streak nor the user's xp.
C25_IncrementAwardsOnce ==
    [][(/\ Handled
        /\ last'.op = "callback_habit"
        /\ last'.data = "qty"
        /\ FoundHabit(last')
        /\ HabitTable[last'.habit_id].habit_type = "quantity")
       => LET h == last'.habit_id
              old == LogRows(db, h, last'.date)
              new == LogRows(db', h, last'.date)
              before == IF old = <<>> THEN 0 ELSE old[1].quantity_logged
              was_completed == old # <<>> /\ old[1].completed
          IN /\ Len(new) = 1
             /\ new[1].quantity_logged = before + 1
             /\ new[1].completed
                   <=> (was_completed
                        \/ new[1].quantity_logged >= HabitTable[h].target_quantity[1])
             /\ was_completed
                   => /\ db'.habits[h] = db.habits[h]
                      /\ db'.users[last'.user].xp = db.users[last'.user].xp]_vars


(***************************************************************************)
(* Properties of habit_applies_today (SpecCalc).                           *)
(***************************************************************************)
\* C26: habit_applies_today is true for the frequencies daily and
\* times_per_week and for any frequency it does not know or that is not set;
\* for specific_days it is true exactly if the weekday of the date is in the
\* habit's day set, and true when that set is empty or missing.
C26_AppliesToday ==
    (last.pc = "done" /\ last.op = "habit_applies_today")
    => LET name == day_names[((last.check_date - 1) % 7) + 1]
       IN last.out[1]
             <=> IF last.habit.frequency = "specific_days"
                    /\ last.habit.specific_days # {}
                 THEN name \in last.habit.specific_days
                 ELSE TRUE

\* A habit of Mondays has been asked about a Tuesday and does not apply.
C26_Witness ==
    /\ last.pc = "done"
    /\ last.op = "habit_applies_today"
    /\ last.habit.frequency = "specific_days"
    /\ last.habit.specific_days = {"mon"}
    /\ last.check_date = 2
    /\ last.out = Some(FALSE)


(***************************************************************************)
(* One calendar date.  The user has completed all his habits on the k      *)
(* dates before today through log_habit, nothing is logged for today yet,  *)
(* and every request that follows is about today's log.                    *)
(***************************************************************************)
InitDay ==
    /\ \E st \in Settings, k \in 0 .. MaxHistory :
          /\ actor = st[1]
          /\ db = History(InitDb(st[2], st[3]), st[1], k)
          /\ today = k + 1
    /\ sess = [s \in Sessions |-> IdleLoc]
    /\ mcDone = FALSE
    /\ nops = 0
    /\ outbox = <<>>
    /\ last = IdleLoc
    /\ ledger = 0

NextDay ==
    \/ \E uh \in Calls, c \in BOOLEAN :
          \E q \in QuantityInputs(uh[2]) : log_habit(uh[1], uh[2], today, c, q)
    \/ \E uh \in Calls, data \in {"do", "undo", "qty"} :
          callback_habit(uh[1], data, uh[2])

SpecDay == InitDay /\ [][NextDay]_vars

\* The store as the date began.
OpeningDb ==
    History(InitDb(db.users[2].mode, db.users[2].telegram_id), actor, today - 1)

\* C27: whatever marks, un-marks and re-marks are made on one calendar date,
\* the user's global_streak is never more than 1 above the value it had when
\* the date began.
C27_StreakUpByOneADay ==
    db.users[actor].global_streak <= OpeningDb.users[actor].global_streak + 1


\* The number of consecutive dates, ending with d, for which habit h has a
\* completed log.
RECURSIVE completed_run(_, _, _)
completed_run(d_b, h, d) ==
    IF CompletedLog(d_b, h, d) THEN 1 + completed_run(d_b, h, d - 1) ELSE 0

\* C28: with marks and un-marks made for the current date only, whenever
\* today's log of a habit is completed the habit's current_streak is the
\* number of consecutive days, ending today, with a completed log of the
\* habit; an un-mark followed by a re-mark gives the streak back.
C28_StreakCountsDays ==
    \A h \in Habits :
        CompletedLog(db, h, today)
        => db.habits[h].current_streak = completed_run(db, h, today)


(***************************************************************************)
(* Properties of the midnight check after the first requests of the day    *)
(* (Spec).                                                                 *)
(***************************************************************************)
\* C29: when a user has completed all the habits that apply on the new day
\* before the midnight check looks at the day just ended, the check of an
\* incomplete day just ended does not take away the new day's credit: after
\* it the user's global_streak is at least 1.
C29_NewDayCreditKept ==
    [][(mcDone' /\ ~mcDone)
       => \A u \in Users :
             (/\ applicable_habits(u, today) # {}
              /\ check_all_completed(db, u, today)
              /\ ~check_all_completed(db, u, today - 1))
             => db'.users[u].global_streak >= 1]_vars


(***************************************************************************)
(* Requests that name a habit the user does not have, over the account's   *)
(* first days: a habit of another user and an id that no habit has.        *)
(***************************************************************************)
UnknownCalls == {uh \in Calls : ~(uh[2] \in Habits /\ HabitTable[uh[2]].user_id = uh[1])}

NextUnknown ==
    \/ \E uh \in UnknownCalls, d \in Dates, c \in BOOLEAN :
          log_habit(uh[1], uh[2], d, c, None)
    \/ \E uh \in UnknownCalls, data \in {"do", "undo", "qty"} :
          callback_habit(uh[1], data, uh[2])
    \/ DayPasses

SpecUnknown == Init /\ [][NextUnknown]_vars

\* C30: a mark or a quantity increment that names a habit id which does not
\* exist or belongs to another user creates no HabitLog and changes no habit
\* streak and no user's global streak, xp or level.
C30_UnknownHabitChangesNothing ==
    [][(/\ Handled
        /\ last'.op \in {"log_habit", "callback_habit"}
        /\ ~FoundHabit(last'))
       => /\ db'.habit_logs = db.habit_logs
          /\ db'.habits = db.habits
          /\ \A u \in Users :
                /\ db'.users[u].global_streak = db.users[u].global_streak
                /\ db'.users[u].xp = db.users[u].xp
                /\ db'.users[u].level = db.users[u].level]_vars

=============================================================================
